---- MODULE Spec2Model ----
(***************************************************************************)
(* A model of pygama's eigen ufunc adapter (eigen_ufunc.hh) and of the     *)
(* kernels built on it (pole_zero, trap_filter, trap_norm, mean).          *)
(*                                                                         *)
(* Four specifications share the variables:                                *)
(*   SpecSignature  get_signature on a batched/fallback kernel pair        *)
(*   SpecRegistry   the ufunc_implementation constructor                   *)
(*   SpecDispatch   execute_ufunc: alignment fold, loops, get_args views   *)
(*   SpecKernels    execute_ufunc driving the kernels over host buffers    *)
(***************************************************************************)
EXTENDS Integers, Sequences, FiniteSets, TLC

VARIABLES
  stage,        \* position of the modelled operation
  T_align,      \* argument types of f_align   (template pack T_align...)
  T_unalign,    \* argument types of f_unalign (template pack T_unalign...)
  sig,          \* the ufunc_signature returned by get_signature
  impl_list,    \* the constructor's impl_list
  ufunc,        \* the ufunc_implementation object under construction
  args,         \* char** args   : one base address per argument
  dims,         \* npy_intp* dims: <<outer extent, inner extent>>
  steps,        \* npy_intp* steps: outer steps, then inner steps
  aligned,      \* execute_ufunc's local `aligned`
  arg_aligned,  \* what is_aligned returns for each argument of the call
  calls,        \* kernel invocations made by execute_ufunc, in order
  kernel,       \* which kernel body f_align / f_unalign run
  stray,        \* what a read outside the host's buffers yields
  mem,          \* host buffers, one per argument: address -> value
  forced,       \* the two loops of execute_ufunc forced on the same buffers
  twin          \* the buffers after trap_filter is called on a trap_norm call

vars == <<stage, T_align, T_unalign, sig, impl_list, ufunc, args, dims, steps,
          aligned, arg_aligned, calls, kernel, stray, mem, forced, twin>>

(***************************************************************************)
(* Typedefs and arg_info (eigen_ufunc.hh 22-180)                           *)
(***************************************************************************)

\* const int Aligned = Eigen::Aligned64
Aligned == 64
\* const int Unaligned = Eigen::Unaligned
Unaligned == 0

\* numpy type numbers returned by get_typechar
NPY_BOOL == 0
NPY_BYTE == 1
NPY_UBYTE == 2
NPY_SHORT == 3
NPY_USHORT == 4
NPY_INT == 5
NPY_UINT == 6
NPY_LONG == 7
NPY_ULONG == 8
NPY_FLOAT == 11
NPY_DOUBLE == 12
NPY_CFLOAT == 14
NPY_CDOUBLE == 15

DTypes == {"bool", "int8_t", "int16_t", "int32_t", "int64_t", "uint8_t",
           "uint16_t", "uint32_t", "uint64_t", "float", "double",
           "complex_float", "complex_double"}

get_typechar(T) ==
  CASE T = "bool" -> NPY_BOOL
    [] T = "int8_t" -> NPY_BYTE
    [] T = "int16_t" -> NPY_SHORT
    [] T = "int32_t" -> NPY_INT
    [] T = "int64_t" -> NPY_LONG
    [] T = "uint8_t" -> NPY_UBYTE
    [] T = "uint16_t" -> NPY_USHORT
    [] T = "uint32_t" -> NPY_UINT
    [] T = "uint64_t" -> NPY_ULONG
    [] T = "float" -> NPY_FLOAT
    [] T = "double" -> NPY_DOUBLE
    [] T = "complex_float" -> NPY_CFLOAT
    [] T = "complex_double" -> NPY_CDOUBLE

\* sizeof(T) on the LP64 targets the extension is built for
sizeof(T) ==
  CASE T \in {"bool", "int8_t", "uint8_t"} -> 1
    [] T \in {"int16_t", "uint16_t"} -> 2
    [] T \in {"int32_t", "uint32_t", "float"} -> 4
    [] T \in {"int64_t", "uint64_t", "double", "complex_float"} -> 8
    [] T = "complex_double" -> 16

\* The argument types arg_info is specialised for.  "scalar" is the primary
\* template (a plain arithmetic T passed by value).
BlockKinds == {"wfblock_ref", "const_wfblock_ref", "scalarblock_ref",
               "const_scalarblock_ref"}
Kinds == BlockKinds \cup {"scalar"}

\* An argument type: kind<dtype, Align>  (Align is unused for "scalar")
ArgType(k, T, A) == [kind |-> k, dtype |-> T, Align |-> A]

dtype_char(a) == get_typechar(a.dtype)

has_inner_dim(a) == a.kind \in {"wfblock_ref", "const_wfblock_ref"}

is_const(a) == a.kind \in {"scalar", "const_wfblock_ref", "const_scalarblock_ref"}

\* RowsAtCompileTime of the Ref: Align>0 ? Align/sizeof(T) : 1; 0 for a scalar
blocksize(a) ==
  IF a.kind = "scalar" THEN 0
  ELSE IF a.Align > 0 THEN a.Align \div sizeof(a.dtype) ELSE 1

(***************************************************************************)
(* get_signature (eigen_ufunc.hh 221-245)                                  *)
(***************************************************************************)

\* the fold expression (size_t)(is_const) + ...
RECURSIVE CountConst(_)
CountConst(Ts) ==
  IF Ts = <<>> THEN 0
  ELSE (IF is_const(Head(Ts)) THEN 1 ELSE 0) + CountConst(Tail(Ts))

\* the condition of the static_assert
SignaturesCompatible(Ta, Tu) ==
  /\ Len(Ta) = Len(Tu)
  /\ \A p \in 1..Len(Ta) :
       /\ dtype_char(Ta[p]) = dtype_char(Tu[p])
       /\ has_inner_dim(Ta[p]) = has_inner_dim(Tu[p])
       /\ is_const(Ta[p]) = is_const(Tu[p])

\* what a pair that fails the static_assert yields: nothing is emitted
NoSignature == [ok |-> FALSE, fTypes |-> <<>>, fNargs |-> 0, fNin |-> 0, fNout |-> 0]

MutGetSignature(Ta, Tu) ==
  IF SignaturesCompatible(Ta, Tu)
  THEN [ok |-> TRUE,
        fTypes |-> [p \in 1..Len(Ta) |-> dtype_char(Ta[p])],
        fNargs |-> Len(Ta),
        fNin |-> Len(Ta) - CountConst(Ta),
        fNout |-> CountConst(Ta)]
  ELSE NoSignature

get_signature(Ta, Tu) ==
  IF SignaturesCompatible(Ta, Tu)
  THEN [ok |-> TRUE,
        fTypes |-> [p \in 1..Len(Ta) |-> dtype_char(Ta[p])],
        fNargs |-> Len(Ta),
        fNin |-> CountConst(Ta),
        fNout |-> Len(Ta) - CountConst(Ta)]
  ELSE NoSignature

(***************************************************************************)
(* Values the variables hold while an operation they belong to is not the  *)
(* one being run                                                           *)
(***************************************************************************)

NoUfunc ==
  [failed |-> FALSE, fN |-> 0,
   fFuncs |-> [null |-> TRUE, data |-> <<>>],
   fTypeSigs |-> [null |-> TRUE, data |-> <<>>],
   fNargs |-> 0, fNin |-> 0, fNout |-> 0, overrun |-> FALSE]

NoForced == [al |-> <<>>, un |-> <<>>]

SignatureIdle ==
  /\ sig = NoSignature
RegistryIdle ==
  /\ impl_list = <<>>
  /\ ufunc = NoUfunc
DispatchIdle ==
  /\ args = <<>>
  /\ dims = <<0, 0>>
  /\ steps = <<>>
  /\ aligned = FALSE
  /\ arg_aligned = <<>>
  /\ calls = <<>>
KernelsIdle ==
  /\ kernel = "none"
  /\ stray = 0
  /\ mem = <<>>
  /\ forced = NoForced
  /\ twin = <<>>

\* sequences over S of length 1..n
SeqsUpTo(S, n) == UNION {[1..m -> S] : m \in 1..n}

(***************************************************************************)
(* SpecSignature: add_ufunc_impl derives the signature of a kernel pair    *)
(***************************************************************************)

\* longest argument list of a declared kernel pair
MaxSigArgs == 2

SigDTypes == {"int32_t", "double"}
SigArgTypes(A) == {ArgType(k, T, A) : k \in Kinds, T \in SigDTypes}

\* the fallback declarations tried against a batched declaration Ta: its
\* Unaligned counterpart, that with one argument replaced, with the last
\* argument dropped, and with one argument added
UnalignedOf(Ta) == [p \in 1..Len(Ta) |-> ArgType(Ta[p].kind, Ta[p].dtype, Unaligned)]
FallbackDeclarations(Ta) ==
  {UnalignedOf(Ta)}
  \cup {[UnalignedOf(Ta) EXCEPT ![p] = a] :
          p \in 1..Len(Ta), a \in SigArgTypes(Unaligned)}
  \cup {SubSeq(UnalignedOf(Ta), 1, Len(Ta) - 1)}
  \cup {Append(UnalignedOf(Ta), a) : a \in SigArgTypes(Unaligned)}

InitSignature ==
  /\ stage = "declared"
  /\ T_align \in SeqsUpTo(SigArgTypes(Aligned), MaxSigArgs)
  /\ T_unalign \in FallbackDeclarations(T_align)
  /\ SignatureIdle /\ RegistryIdle /\ DispatchIdle /\ KernelsIdle

GetSignature ==
  /\ stage = "declared"
  /\ sig' = get_signature(T_align, T_unalign)
  /\ stage' = "derived"
  /\ UNCHANGED <<T_align, T_unalign, impl_list, ufunc, args, dims, steps,
                 aligned, arg_aligned, calls, kernel, stray, mem, forced, twin>>

NextSignature == GetSignature

SpecSignature == InitSignature /\ [][NextSignature]_vars

\* C7: an accepted pair gets arg_count = number of declared arguments,
\* in_count = number of read-only arguments, out_count = arg_count - in_count
\* and the element-type codes in declaration order; a pair whose argument
\* counts differ, or whose type code, has_inner_dim or constness differ at
\* some position, is rejected and yields no signature.
C7_SignatureDerived ==
  stage = "derived" =>
    LET n == Len(T_align)
        mismatch ==
          \/ Len(T_unalign) # n
          \/ \E p \in 1..n :
               \/ get_typechar(T_align[p].dtype) # get_typechar(T_unalign[p].dtype)
               \/ (T_align[p].kind \in {"wfblock_ref", "const_wfblock_ref"})
                    # (T_unalign[p].kind \in {"wfblock_ref", "const_wfblock_ref"})
               \/ (T_align[p].kind \in {"wfblock_ref", "scalarblock_ref"})
                    # (T_unalign[p].kind \in {"wfblock_ref", "scalarblock_ref"})
    IN IF mismatch
       THEN sig = NoSignature
       ELSE /\ sig.ok
            /\ sig.fNargs = n
            /\ sig.fNin = Cardinality({p \in 1..n :
                             T_align[p].kind \notin {"wfblock_ref", "scalarblock_ref"}})
            /\ sig.fNout = sig.fNargs - sig.fNin
            /\ Len(sig.fTypes) = n
            /\ \A p \in 1..n : sig.fTypes[p] = get_typechar(T_align[p].dtype)

\* a pair such as mean's (read-only waveform in, writable scalar out) was accepted
C7_Witness ==
  /\ stage = "derived"
  /\ sig.ok
  /\ sig.fNin = 1
  /\ sig.fNout = 1
  /\ sig.fTypes = <<NPY_DOUBLE, NPY_DOUBLE>>

(***************************************************************************)
(* ufunc_implementation (eigen_ufunc.hh 259-290)                           *)
(***************************************************************************)

\* strncpy(dst, src, n): the n characters written to dst.  Characters are
\* copied up to and including the first NUL of src; the rest of the n
\* characters are NUL.  (src holds at least n characters here.)
MutStrncpy(src, n) == [p \in 1..n |-> src[p]]

strncpy(src, n) ==
  [p \in 1..n |-> IF \E q \in 1..p : src[q] = 0 THEN 0 ELSE src[p]]

\* new T[n]: n elements of indeterminate value (-1)
NewArray(n) == [null |-> FALSE, data |-> [p \in 1..n |-> -1]]

\* a + off, n elements written from src; a write past the allocation is
\* recorded in `overrun` by the caller and leaves the array alone
WriteAt(a, off, src) ==
  [a EXCEPT !.data = [p \in 1..Len(a.data) |->
     IF p > off /\ p <= off + Len(src) THEN src[p - off] ELSE a.data[p]]]

\* one iteration of the constructor's loop over impl_list (body, 273-287);
\* `size` is impl_list.size().  A failed assert aborts the process: the
\* object is left as it was, marked failed.
ConstructStep(u, impl, size) ==
  LET info == impl.second
      nargs == IF u.fNargs = 0 THEN info.fNargs ELSE u.fNargs
      nin == IF u.fNin = 0 THEN info.fNin ELSE u.fNin
      nout == IF u.fNout = 0 THEN info.fNout ELSE u.fNout
      funcs == IF u.fFuncs.null THEN NewArray(size) ELSE u.fFuncs
      sigs == IF u.fTypeSigs.null THEN NewArray(nargs * size) ELSE u.fTypeSigs
  IN IF ~(nargs = info.fNargs /\ nin = info.fNin /\ nout = info.fNout)
     THEN [u EXCEPT !.failed = TRUE, !.fNargs = nargs, !.fNin = nin, !.fNout = nout]
     ELSE [failed |-> FALSE,
           fN |-> u.fN + 1,
           fFuncs |-> WriteAt(funcs, u.fN, <<impl.first>>),
           fTypeSigs |-> WriteAt(sigs, u.fN * nargs, strncpy(info.fTypes, nargs)),
           fNargs |-> nargs, fNin |-> nin, fNout |-> nout,
           overrun |-> u.overrun \/ (u.fN * nargs + nargs > Len(sigs.data))]

\* the constructor: the loop over impl_list[i..], stopping at a failed assert
RECURSIVE ConstructFrom(_, _, _)
ConstructFrom(u, list, i) ==
  IF i > Len(list) \/ u.failed THEN u
  ELSE ConstructFrom(ConstructStep(u, list[i], Len(list)), list, i + 1)

ufunc_implementation(list) == ConstructFrom(NoUfunc, list, 1)

(***************************************************************************)
(* SpecRegistry: create_ufunc constructs a ufunc_implementation            *)
(***************************************************************************)

\* most implementation entries handed to one constructor call
MaxImpls == 2
\* largest arg_count of an entry
MaxRegArgs == 2

RegTypeCodes == {NPY_BOOL, NPY_DOUBLE}

\* ufunc_signature values: fTypes holds fNargs type codes and, as in
\* get_signature, fNout = fNargs - fNin
RegSignatures ==
  UNION {{[fTypes |-> t, fNargs |-> n, fNin |-> i, fNout |-> n - i] :
            t \in [1..n -> RegTypeCodes], i \in 0..n} : n \in 0..MaxRegArgs}

\* an entry: the dispatch thunk of a kernel pair (one lambda per pair,
\* identified here by the pair's signature) and the pair's signature
ImplEntries == {[first |-> <<"thunk", s>>, second |-> s] : s \in RegSignatures}

InitRegistry ==
  /\ stage = "declared"
  /\ impl_list \in {<<>>} \cup SeqsUpTo(ImplEntries, MaxImpls)
  /\ ufunc = NoUfunc
  /\ T_align = <<>> /\ T_unalign = <<>>
  /\ SignatureIdle /\ DispatchIdle /\ KernelsIdle

Construct ==
  /\ stage = "declared"
  /\ ufunc' = ufunc_implementation(impl_list)
  /\ stage' = "constructed"
  /\ UNCHANGED <<T_align, T_unalign, sig, impl_list, args, dims, steps,
                 aligned, arg_aligned, calls, kernel, stray, mem, forced, twin>>

NextRegistry == Construct

SpecRegistry == InitRegistry /\ [][NextRegistry]_vars

Triple(s) == <<s.fNargs, s.fNin, s.fNout>>

\* C5: construction fails with the assertion whenever two entries differ in
\* (arg_count, in_count, out_count); it completes only if all entries have
\* the same triple, which fNargs, fNin, fNout then equal.
C5_MismatchRejected ==
  stage = "constructed" =>
    /\ (\E v, w \in 1..Len(impl_list) :
          Triple(impl_list[v].second) # Triple(impl_list[w].second))
         => ufunc.failed
    /\ ~ufunc.failed =>
         \A v \in 1..Len(impl_list) :
           Triple(impl_list[v].second) = <<ufunc.fNargs, ufunc.fNin, ufunc.fNout>>

\* C6: after a successful registration of k entries with arg_count n,
\* fTypeSigs[v*n + p] is the type code of argument p of entry v and
\* fFuncs[v] is the thunk of entry v.
C6_TypeTableConcatenated ==
  (/\ stage = "constructed"
   /\ ~ufunc.failed
   /\ \A v \in 1..Len(impl_list) : impl_list[v].second.fNargs = ufunc.fNargs)
  => LET n == ufunc.fNargs
         k == Len(impl_list)
     IN /\ ufunc.fN = k
        /\ \A v \in 0..(k - 1) :
             /\ ufunc.fFuncs.data[v + 1] = impl_list[v + 1].first
             /\ \A p \in 0..(n - 1) :
                  ufunc.fTypeSigs.data[v * n + p + 1] = impl_list[v + 1].second.fTypes[p + 1]

(***************************************************************************)
(* arg_info::is_aligned and arg_info::get_arg (eigen_ufunc.hh 85-179)      *)
(***************************************************************************)

\* is_aligned(args, outer_dim, outer_step) of argument type a.  It is only
\* instantiated for the types of f_align (Align = Aligned).
MutIsAlignedNoDivisibility(a, ptr, outer_dim, outer_step) ==
  CASE a.kind = "scalar" -> outer_step = 0
    [] a.kind = "const_scalarblock_ref" ->
         \/ (ptr % a.Align = 0 /\ outer_step = sizeof(a.dtype))
         \/ outer_step = 0
    [] OTHER -> ptr % a.Align = 0 /\ outer_step = sizeof(a.dtype)

MutIsAlignedNoPointer(a, ptr, outer_dim, outer_step) ==
  CASE a.kind = "scalar" -> outer_step = 0
    [] a.kind = "const_scalarblock_ref" ->
         \/ (outer_dim % blocksize(a) = 0 /\ outer_step = sizeof(a.dtype))
         \/ outer_step = 0
    [] OTHER -> outer_dim % blocksize(a) = 0 /\ outer_step = sizeof(a.dtype)

is_aligned(a, ptr, outer_dim, outer_step) ==
  CASE a.kind = "scalar" -> outer_step = 0
    [] a.kind = "const_scalarblock_ref" ->
         \/ (/\ ptr % a.Align = 0
             /\ outer_dim % blocksize(a) = 0
             /\ outer_step = sizeof(a.dtype))
         \/ outer_step = 0
    [] OTHER ->
         /\ ptr % a.Align = 0
         /\ outer_dim % blocksize(a) = 0
         /\ outer_step = sizeof(a.dtype)

\* The view get_arg returns, as the byte addresses of its elements: element
\* (r, c) of a view v that is not `constant` lives at
\* v.base + r*v.rowStep + c*v.colStep.  The extents of a fixed-size Eigen
\* type are its compile-time extents (rows = blocksize).  Strides reach
\* Eigen in elements: step/sizeof(dtype), an integer division.
\*   wfblock, Align>0 : column-major block, OuterStride = distance of columns
\*   wfblock, Align=0 : 1 x n row vector, InnerStride = distance of columns
\*   scalarblock      : column of blocksize scalars, unit stride when aligned
\*   const scalarblock with outer_step 0 : basetype::Constant(*args)
\*   scalar           : *(T*)(args + i_outer*outer_step)
View(a, isConstant, base, rows, cols, rowStep, colStep) ==
  [type |-> a, constant |-> isConstant, base |-> base, rows |-> rows,
   cols |-> cols, rowStep |-> rowStep, colStep |-> colStep]

\* get_arg with the batched waveform view laid out sequence after sequence
\* (rows at the inner stride, columns one element apart)
MutGetArgRowMajorBlock(a, ptr, i_outer, n_wfs, inner_dim, outer_step, inner_step) ==
  LET size == sizeof(a.dtype)
      at == ptr + i_outer * outer_step
  IN CASE a.kind = "scalar" -> View(a, FALSE, at, 1, 1, 0, 0)
       [] a.kind \in {"wfblock_ref", "const_wfblock_ref"} ->
            IF a.Align > 0
            THEN View(a, FALSE, at, blocksize(a), inner_dim,
                      (inner_step \div size) * size, size)
            ELSE View(a, FALSE, at, blocksize(a), inner_dim,
                      size, (inner_step \div size) * size)
       [] a.kind = "scalarblock_ref" ->
            View(a, FALSE, at, blocksize(a), 1,
                 IF a.Align > 0 THEN size ELSE (outer_step \div size) * size, 0)
       [] a.kind = "const_scalarblock_ref" ->
            IF outer_step = 0
            THEN View(a, TRUE, ptr, blocksize(a), 1, 0, 0)
            ELSE View(a, FALSE, at, blocksize(a), 1,
                      IF a.Align > 0 THEN size ELSE (outer_step \div size) * size, 0)

get_arg(a, ptr, i_outer, n_wfs, inner_dim, outer_step, inner_step) ==
  LET size == sizeof(a.dtype)
      at == ptr + i_outer * outer_step
  IN CASE a.kind = "scalar" -> View(a, FALSE, at, 1, 1, 0, 0)
       [] a.kind \in {"wfblock_ref", "const_wfblock_ref"} ->
            View(a, FALSE, at, blocksize(a), inner_dim,
                 size, (inner_step \div size) * size)
       [] a.kind = "scalarblock_ref" ->
            View(a, FALSE, at, blocksize(a), 1,
                 IF a.Align > 0 THEN size ELSE (outer_step \div size) * size, 0)
       [] a.kind = "const_scalarblock_ref" ->
            IF outer_step = 0
            THEN View(a, TRUE, ptr, blocksize(a), 1, 0, 0)
            ELSE View(a, FALSE, at, blocksize(a), 1,
                      IF a.Align > 0 THEN size ELSE (outer_step \div size) * size, 0)

ElemAddr(v, r, c) == v.base + r * v.rowStep + c * v.colStep

(***************************************************************************)
(* get_args (eigen_ufunc.hh 183-194)                                       *)
(***************************************************************************)

\* what a read of steps[] past the slots the host supplies yields
Indeterminate == -1

\* C arrays are indexed from 0
ArgAt(a, i) == a[i + 1]
StepAt(s, i) == IF i < Len(s) THEN s[i + 1] ELSE Indeterminate

\* One marshalled argument: the view, and the slots of args[] and steps[]
\* get_args read to build it.
Marshalled(v, i_outerstep, i_innerstep) ==
  [view |-> v, argSlot |-> i_outerstep, outerSlot |-> i_outerstep,
   innerSlot |-> i_innerstep]

RECURSIVE MutGetArgsAlwaysAdvance(_, _, _, _, _, _, _, _)
MutGetArgsAlwaysAdvance(Ts, a, d, s, i_wf, n_wfs, i_outerstep, i_innerstep) ==
  LET T == Head(Ts)
      arg == Marshalled(get_arg(T, ArgAt(a, i_outerstep), i_wf, n_wfs, d[2],
                                StepAt(s, i_outerstep), StepAt(s, i_innerstep)),
                        i_outerstep, i_innerstep)
  IN IF Len(Ts) = 1 THEN <<arg>>
     ELSE <<arg>> \o MutGetArgsAlwaysAdvance(Tail(Ts), a, d, s, i_wf, n_wfs,
                                             i_outerstep + 1, i_innerstep + 1)

RECURSIVE get_args(_, _, _, _, _, _, _, _)
get_args(Ts, a, d, s, i_wf, n_wfs, i_outerstep, i_innerstep) ==
  LET T == Head(Ts)
      arg == Marshalled(get_arg(T, ArgAt(a, i_outerstep), i_wf, n_wfs, d[2],
                                StepAt(s, i_outerstep), StepAt(s, i_innerstep)),
                        i_outerstep, i_innerstep)
      next_inner == IF has_inner_dim(T) THEN i_innerstep + 1 ELSE i_innerstep
  IN IF Len(Ts) = 1 THEN <<arg>>
     ELSE <<arg>> \o get_args(Tail(Ts), a, d, s, i_wf, n_wfs,
                              i_outerstep + 1, next_inner)

(***************************************************************************)
(* execute_ufunc (eigen_ufunc.hh 198-218)                                  *)
(***************************************************************************)

\* std::max({arg_info<T_align>::blocksize...})
RECURSIVE MaxBlocksize(_)
MaxBlocksize(Ts) ==
  IF Len(Ts) = 1 THEN blocksize(Head(Ts))
  ELSE LET m == MaxBlocksize(Tail(Ts))
       IN IF blocksize(Head(Ts)) > m THEN blocksize(Head(Ts)) ELSE m

\* the fold expression over the arguments of f_align
MutAlignedFoldAny(Ta, a, d, s) ==
  \E p \in 1..Len(Ta) :
    /\ blocksize(Ta[p]) = 0 \/ blocksize(Ta[p]) = MaxBlocksize(Ta)
    /\ is_aligned(Ta[p], a[p], d[1], s[p])

AlignedFold(Ta, a, d, s) ==
  \A p \in 1..Len(Ta) :
    /\ blocksize(Ta[p]) = 0 \/ blocksize(Ta[p]) = MaxBlocksize(Ta)
    /\ is_aligned(Ta[p], a[p], d[1], s[p])

\* one kernel invocation: which function, and the arguments it was applied to
Invocation(f, i_wf, n_wfs, marshalled) ==
  [f |-> f, i_wf |-> i_wf, n_wfs |-> n_wfs, args |-> marshalled]

\* for(int i_wf=0; i_wf<dims[0]; i_wf += blocksize) f_align(get_args<T_align...>)
RECURSIVE AlignedLoop(_, _, _, _, _, _)
AlignedLoop(Ta, a, d, s, bs, i_wf) ==
  IF i_wf < d[1]
  THEN <<Invocation("f_align", i_wf, bs,
                    get_args(Ta, a, d, s, i_wf, bs, 0, Len(Ta)))>>
       \o AlignedLoop(Ta, a, d, s, bs, i_wf + bs)
  ELSE <<>>

\* for(int i_wf=0; i_wf<dims[0]; i_wf++) f_unalign(get_args<T_unalign...>)
RECURSIVE UnalignedLoop(_, _, _, _, _)
UnalignedLoop(Tu, a, d, s, i_wf) ==
  IF i_wf < d[1]
  THEN <<Invocation("f_unalign", i_wf, 1,
                    get_args(Tu, a, d, s, i_wf, 1, 0, Len(Tu)))>>
       \o UnalignedLoop(Tu, a, d, s, i_wf + 1)
  ELSE <<>>

\* the invocations execute_ufunc makes, in order
execute_ufunc(Ta, Tu, a, d, s) ==
  IF AlignedFold(Ta, a, d, s)
  THEN AlignedLoop(Ta, a, d, s, MaxBlocksize(Ta), 0)
  ELSE UnalignedLoop(Tu, a, d, s, 0)

(***************************************************************************)
(* SpecDispatch: the host calls the thunk of a kernel pair, which runs     *)
(* execute_ufunc on the host's args, dims and steps                        *)
(***************************************************************************)

\* largest outer extent dims[0] of a call
MaxOuter == 8
\* largest inner extent dims[1] of a call
MaxInner == 2

\* The argument packs execute_ufunc is instantiated for: the repository's
\* kernels with double waveforms (block size 8), and two further packs the
\* template accepts: a complex waveform in and a real waveform out (block
\* sizes 4 and 8), and a pack of read-only scalars only.
PoleZeroPack == <<<<"const_wfblock_ref", "double">>, <<"const_scalarblock_ref", "double">>,
                  <<"wfblock_ref", "double">>>>
TrapIntPack == <<<<"const_wfblock_ref", "double">>, <<"scalar", "int32_t">>,
                 <<"scalar", "int32_t">>, <<"wfblock_ref", "double">>>>
TrapRealPack == <<<<"const_wfblock_ref", "double">>, <<"scalar", "double">>,
                  <<"scalar", "double">>, <<"wfblock_ref", "double">>>>
MeanPack == <<<<"const_wfblock_ref", "double">>, <<"scalarblock_ref", "double">>>>
MixedBlockPack == <<<<"const_wfblock_ref", "complex_double">>, <<"wfblock_ref", "double">>>>
ReadOnlyScalarPack == <<<<"const_scalarblock_ref", "double">>, <<"scalar", "int32_t">>>>

DispatchPacks == {PoleZeroPack, TrapIntPack, TrapRealPack, MeanPack,
                  MixedBlockPack, ReadOnlyScalarPack}

\* the f_align / f_unalign argument types of a pack
Instantiate(pack, A) == [p \in 1..Len(pack) |-> ArgType(pack[p][1], pack[p][2], A)]

\* what the host may pass: base addresses (a multiple of 64 or not), outer
\* steps (broadcast, packed doubles, packed complex doubles / strided) and
\* inner steps (a multiple of the element size or not)
Ptrs == {64, 72}
OuterSteps == {0, 8, 16}
InnerSteps == {12, 64}

NumInner(Ts) == Cardinality({p \in 1..Len(Ts) : has_inner_dim(Ts[p])})

HostSteps(Ts) ==
  {s \in [1..(Len(Ts) + NumInner(Ts)) -> OuterSteps \cup InnerSteps] :
     \A p \in 1..Len(s) : IF p <= Len(Ts) THEN s[p] \in OuterSteps
                                          ELSE s[p] \in InnerSteps}

HostArgs(Ts) ==
  {a \in [1..Len(Ts) -> Ptrs] :
     \A p \in 1..Len(Ts) : Ts[p].kind = "scalar" => a[p] = 72}

InitDispatch ==
  /\ stage = "called"
  /\ \E pack \in DispatchPacks :
       /\ T_align = Instantiate(pack, Aligned)
       /\ T_unalign = Instantiate(pack, Unaligned)
  /\ args \in HostArgs(T_align)
  /\ dims \in (0..MaxOuter) \X (1..MaxInner)
  /\ steps \in HostSteps(T_align)
  /\ aligned = FALSE
  /\ arg_aligned = <<>>
  /\ calls = <<>>
  /\ SignatureIdle /\ RegistryIdle /\ KernelsIdle

ExecuteUfunc ==
  /\ stage = "called"
  /\ aligned' = AlignedFold(T_align, args, dims, steps)
  /\ arg_aligned' = [p \in 1..Len(T_align) |->
                       is_aligned(T_align[p], args[p], dims[1], steps[p])]
  /\ calls' = execute_ufunc(T_align, T_unalign, args, dims, steps)
  /\ stage' = "returned"
  /\ UNCHANGED <<T_align, T_unalign, sig, impl_list, ufunc, args, dims, steps,
                 kernel, stray, mem, forced, twin>>

NextDispatch == ExecuteUfunc

SpecDispatch == InitDispatch /\ [][NextDispatch]_vars

\* the kernel's batch size: the maximum declared block size
BatchSize == MaxBlocksize(T_align)

\* the host's slot convention: outer step of argument k (from 0) in steps[k],
\* inner step of the m-th argument with an inner dimension in steps[N + m]
HostOuterStep(k) == steps[k + 1]
HostInnerStep(k) ==
  steps[Len(T_align) + Cardinality({q \in 0..(k - 1) : has_inner_dim(T_align[q + 1])}) + 1]

OnlyBatched ==
  /\ Len(calls) * BatchSize >= dims[1]
  /\ (Len(calls) - 1) * BatchSize < dims[1] \/ Len(calls) = 0
  /\ \A i \in 1..Len(calls) :
       /\ calls[i].f = "f_align"
       /\ calls[i].i_wf = (i - 1) * BatchSize
       /\ calls[i].n_wfs = BatchSize

OnlyFallback ==
  /\ Len(calls) = dims[1]
  /\ \A i \in 1..Len(calls) :
       /\ calls[i].f = "f_unalign"
       /\ calls[i].i_wf = i - 1
       /\ calls[i].n_wfs = 1

ReadOnlyBroadcast(p) ==
  /\ T_align[p].kind \in {"const_scalarblock_ref", "scalar"}
  /\ steps[p] = 0

\* C2 as stated: whenever dims[0] is not a multiple of the batch size, the
\* batched kernel is never invoked and the fallback kernel is invoked once
\* for each sequence index 0..dims[0]-1, for every kernel signature.
C2_AsStated ==
  (stage = "returned" /\ dims[1] % BatchSize # 0) => OnlyFallback

\* C2 amended: the same, for calls in which at least one argument is not a
\* read-only scalar passed with outer stride 0.
C2_NonMultipleFallsBack ==
  (/\ stage = "returned"
   /\ dims[1] % BatchSize # 0
   /\ \E p \in 1..Len(T_align) : ~ReadOnlyBroadcast(p))
  => OnlyFallback

\* a call over 3 sequences whose buffers are otherwise packed and aligned
C2_Witness ==
  /\ stage = "returned"
  /\ dims[1] = 3
  /\ \A p \in 1..Len(T_align) :
       is_aligned(T_align[p], args[p], BatchSize, steps[p])
  /\ \E p \in 1..Len(T_align) : has_inner_dim(T_align[p])
  /\ Len(calls) = 3

\* C3 as stated: is_aligned is true iff (pointer a multiple of the alignment
\* and inner stride = element size and outer extent a multiple of the
\* kernel's batch size) or (constant scalar and outer stride 0).  An argument
\* without an inner dimension has no inner stride to compare.
C3_AsStated ==
  stage = "returned" =>
    \A p \in 1..Len(T_align) :
      arg_aligned[p] <=>
        \/ /\ args[p] % Aligned = 0
           /\ has_inner_dim(T_align[p]) => HostInnerStep(p - 1) = sizeof(T_align[p].dtype)
           /\ dims[1] % BatchSize = 0
        \/ ReadOnlyBroadcast(p)

\* C3 amended: for a block-typed argument is_aligned is true iff (pointer a
\* multiple of the alignment and OUTER stride = element size and outer extent
\* a multiple of the argument's own block size) or (const scalar block and
\* outer stride 0); for a plain scalar iff its outer stride is 0.
C3_IsAlignedExact ==
  stage = "returned" =>
    \A p \in 1..Len(T_align) :
      arg_aligned[p] <=>
        IF T_align[p].kind = "scalar" THEN HostOuterStep(p - 1) = 0
        ELSE \/ /\ args[p] % Aligned = 0
                /\ HostOuterStep(p - 1) = sizeof(T_align[p].dtype)
                /\ dims[1] % (Aligned \div sizeof(T_align[p].dtype)) = 0
             \/ /\ T_align[p].kind = "const_scalarblock_ref"
                /\ HostOuterStep(p - 1) = 0

\* a waveform argument passes although its samples are not densely packed
C3_Witness ==
  /\ stage = "returned"
  /\ \E p \in 1..Len(T_align) :
       /\ has_inner_dim(T_align[p])
       /\ arg_aligned[p]
       /\ HostInnerStep(p - 1) # sizeof(T_align[p].dtype)
       /\ dims[1] > 0

\* C4 as stated: the batched path is taken iff is_aligned holds for every
\* argument, also when the arguments declare different block sizes; a call
\* never mixes batched and fallback invocations.
C4_AsStated ==
  stage = "returned" =>
    /\ aligned <=> \A p \in 1..Len(T_align) : arg_aligned[p]
    /\ IF \A p \in 1..Len(T_align) : arg_aligned[p] THEN OnlyBatched ELSE OnlyFallback

\* C4 amended: the batched path is taken iff for every argument the declared
\* block size is 0 or the batch size and is_aligned holds.
C4_BatchedIffAllPass ==
  stage = "returned" =>
    LET pass(p) == /\ blocksize(T_align[p]) \in {0, BatchSize}
                   /\ arg_aligned[p]
    IN /\ aligned <=> \A p \in 1..Len(T_align) : pass(p)
       /\ IF \A p \in 1..Len(T_align) : pass(p) THEN OnlyBatched ELSE OnlyFallback

\* a call of 8 sequences went through the batched kernel in one step
C4_Witness ==
  /\ stage = "returned"
  /\ dims[1] = 8
  /\ aligned
  /\ Len(calls) = 1
  /\ calls[1].f = "f_align"

\* C9: get_args builds argument k from args[k] and steps[k] and, if it has
\* an inner dimension, from steps[N + m], m the number of arguments with an
\* inner dimension before k; other arguments leave the inner cursor alone.
C9_ArgumentSlots ==
  stage = "returned" =>
    \A i \in 1..Len(calls) :
      LET Ts == IF calls[i].f = "f_align" THEN T_align ELSE T_unalign
          N == Len(Ts)
          m == calls[i].args
      IN /\ Len(m) = N
         /\ \A k \in 0..(N - 1) :
              /\ m[k + 1].argSlot = k
              /\ m[k + 1].outerSlot = k
              /\ m[k + 1].view.type = Ts[k + 1]
              /\ ~m[k + 1].view.constant =>
                   m[k + 1].view.base = args[k + 1] + calls[i].i_wf * steps[k + 1]
              /\ has_inner_dim(Ts[k + 1]) =>
                   /\ m[k + 1].innerSlot =
                        N + Cardinality({q \in 0..(k - 1) : has_inner_dim(Ts[q + 1])})
                   /\ m[k + 1].view.colStep =
                        (steps[m[k + 1].innerSlot + 1] \div sizeof(Ts[k + 1].dtype))
                          * sizeof(Ts[k + 1].dtype)
              /\ (~has_inner_dim(Ts[k + 1]) /\ k + 1 < N) =>
                   m[k + 2].innerSlot = m[k + 1].innerSlot

\* trap_filter's output waveform, after two scalars, was built from steps[5]
C9_Witness ==
  /\ stage = "returned"
  /\ Len(T_align) = 4
  /\ Len(calls) > 0
  /\ calls[1].args[2].innerSlot = 5
  /\ calls[1].args[4].innerSlot = 5
  /\ calls[1].args[4].view.colStep = 8

\* C10: on the fallback path the view of sequence i addresses sample j of an
\* array argument at base_pointer + i*outer_step + j*inner_step, for
\* arbitrary byte strides.
C10_FallbackAddresses ==
  stage = "returned" =>
    \A i \in 1..Len(calls) :
      calls[i].f = "f_unalign" =>
        \A k \in 0..(Len(T_unalign) - 1) :
          has_inner_dim(T_unalign[k + 1]) =>
            \A j \in 0..(dims[2] - 1) :
              ElemAddr(calls[i].args[k + 1].view, 0, j)
                = args[k + 1] + calls[i].i_wf * HostOuterStep(k) + j * HostInnerStep(k)

(***************************************************************************)
(* Sample values.  A finite sample is a rational n/d in lowest terms (the  *)
(* rounding of float and double is not modelled); the non-finite samples   *)
(* are NaN and the two infinities, with the arithmetic of IEEE 754.        *)
(***************************************************************************)

Abs(x) == IF x < 0 THEN -x ELSE x
Sign(x) == IF x < 0 THEN -1 ELSE IF x > 0 THEN 1 ELSE 0

RECURSIVE GCD(_, _)
GCD(a, b) == IF b = 0 THEN a ELSE GCD(b, a % b)

Fin(n, d) == LET g == GCD(Abs(n), d) IN [k |-> "fin", n |-> n \div g, d |-> d \div g]
NaN == [k |-> "nan", n |-> 0, d |-> 1]
Inf(sgn) == [k |-> "inf", n |-> sgn, d |-> 1]

\* Eigen's isFinite()
isFinite(v) == v.k = "fin"

VNeg(a) == IF a.k = "nan" THEN NaN ELSE [a EXCEPT !.n = -a.n]

VAdd(a, b) ==
  IF a.k = "nan" \/ b.k = "nan" THEN NaN
  ELSE IF a.k = "inf" THEN (IF b.k = "inf" /\ b.n # a.n THEN NaN ELSE a)
  ELSE IF b.k = "inf" THEN b
  ELSE Fin(a.n * b.d + b.n * a.d, a.d * b.d)

VSub(a, b) == VAdd(a, VNeg(b))

VMul(a, b) ==
  IF a.k = "nan" \/ b.k = "nan" THEN NaN
  ELSE IF a.k = "inf" \/ b.k = "inf"
       THEN (IF a.n = 0 \/ b.n = 0 THEN NaN ELSE Inf(Sign(a.n) * Sign(b.n)))
  ELSE Fin(a.n * b.n, a.d * b.d)

VDiv(a, b) ==
  IF a.k = "nan" \/ b.k = "nan" THEN NaN
  ELSE IF b.k = "inf" THEN (IF a.k = "inf" THEN NaN ELSE Fin(0, 1))
  ELSE IF b.n = 0 THEN (IF a.n = 0 THEN NaN ELSE Inf(Sign(a.n)))
  ELSE IF a.k = "inf" THEN Inf(Sign(a.n) * Sign(b.n))
  ELSE Fin(a.n * b.d * Sign(b.n), a.d * Abs(b.n))

\* conversions of a time parameter (rise, flat; never negative here):
\* int(x) truncates, round(x) rounds halves away from zero
TruncToInt(v) == v.n \div v.d
RoundToInt(v) == (2 * v.n + v.d) \div (2 * v.d)
\* i < x for an int i and a finite x
IntLess(i, v) == i * v.d < v.n

\* exp(-1/tau).  exp has no rational values: for 0 < tau < inf the model
\* takes the Pade approximant (1 - x/2)/(1 + x/2) of exp(-x) at x = 1/tau;
\* the special values are exact (tau = +0 gives 0, an infinite tau gives 1).
ExpNegInverse(tau) ==
  IF tau.k = "nan" THEN NaN
  ELSE IF tau.k = "inf" THEN Fin(1, 1)
  ELSE IF tau.n = 0 THEN Fin(0, 1)
  ELSE Fin(2 * tau.n - tau.d, 2 * tau.n + tau.d)

(***************************************************************************)
(* Views over host memory.  M is the sequence of the arguments' buffers,   *)
(* each a function from the byte address of an element to its value.       *)
(***************************************************************************)

\* coefficient (r, c) of the view of argument k
ReadElem(M, k, v, r, c, outside) ==
  IF v.constant THEN M[k][v.base]
  ELSE IF ElemAddr(v, r, c) \in DOMAIN M[k] THEN M[k][ElemAddr(v, r, c)]
  ELSE outside

\* the rows of a column assignment, stored one after the other
RECURSIVE AssignRows(_, _, _, _, _)
AssignRows(buf, v, c, vals, r) ==
  IF r >= v.rows THEN buf
  ELSE AssignRows(IF ElemAddr(v, r, c) \in DOMAIN buf
                  THEN [buf EXCEPT ![ElemAddr(v, r, c)] = vals[r]]
                  ELSE buf,
                  v, c, vals, r + 1)

\* the rows of a view
RowsOf(v) == 0..(v.rows - 1)

\* view.col(c) = vals, the right-hand side evaluated for every row of the view
WriteCol(buf, v, c, vals) == AssignRows(buf, v, c, vals, 0)

(***************************************************************************)
(* pole_zero (pole_zero.cpp 28-41)                                         *)
(***************************************************************************)

\* for(int i=1; i<w_out.cols(); i++) w_out.col(i) = w_out.col(i-1) + ...
RECURSIVE PoleZeroLoop(_, _, _, _, _)
PoleZeroLoop(o, i, M, m, outside) ==
  LET w_in == m[1].view
      t_tau == m[2].view
      w_out == m[3].view
      c(r) == ExpNegInverse(ReadElem(M, 2, t_tau, r, 0, outside))
  IN IF i < w_out.cols
     THEN PoleZeroLoop(
            WriteCol(o, w_out, i, [r \in RowsOf(w_out) |->
              VSub(VAdd(ReadElem([M EXCEPT ![3] = o], 3, w_out, r, i - 1, outside),
                        ReadElem(M, 1, w_in, r, i, outside)),
                   VMul(ReadElem(M, 1, w_in, r, i - 1, outside), c(r)))]),
            i + 1, M, m, outside)
     ELSE o

pole_zero(M, m, outside) ==
  LET w_in == m[1].view
      t_tau == m[2].view
      w_out == m[3].view
      not_nan(r) == /\ \A j \in 0..(w_in.cols - 1) : isFinite(ReadElem(M, 1, w_in, r, j, outside))
                    /\ isFinite(ReadElem(M, 2, t_tau, r, 0, outside))
      first == WriteCol(M[3], w_out, 0, [r \in RowsOf(w_out) |->
                 IF not_nan(r) THEN ReadElem(M, 1, w_in, r, 0, outside) ELSE NaN])
  IN [M EXCEPT ![3] = PoleZeroLoop(first, 1, M, m, outside)]

(***************************************************************************)
(* trap_filter and trap_norm (trap_filters.cpp 29-46, 81-99).  The two     *)
(* bodies differ in the division of every recurrence step by rise, so one  *)
(* definition with a flag renders both.  The four loops run one after the  *)
(* other over the output as the previous loops left it:                    *)
(*   1: for(int i=1; i<rise_int; ++i)                                      *)
(*   2: for(int i=rise; i<rise_int+flat_int; ++i)                          *)
(*   3: for(int i=rise+flat; i<2*rise+flat; ++i)                           *)
(*   4: for(int i=2*rise_int+flat_int; i<trap.cols(); ++i)                 *)
(* Loops 2 and 3 take their bounds from rise and flat as passed (T_time),  *)
(* loops 1 and 4 from the rounded values.                                  *)
(***************************************************************************)

TrapContinues(seg, i, rise, flat, rise_int, flat_int, cols) ==
  CASE seg = 1 -> i < rise_int
    [] seg = 2 -> i < rise_int + flat_int
    [] seg = 3 -> IntLess(i, VAdd(VMul(Fin(2, 1), rise), flat))
    [] seg = 4 -> i < cols

TrapStep(seg, norm, o, i, r, M, m, outside) ==
  LET wf_in == m[1].view
      trap == m[4].view
      rise == ReadElem(M, 2, m[2].view, 0, 0, outside)
      rise_int == RoundToInt(rise)
      flat_int == RoundToInt(ReadElem(M, 3, m[3].view, 0, 0, outside))
      in(c) == ReadElem(M, 1, wf_in, r, c, outside)
      t1 == VAdd(ReadElem([M EXCEPT ![4] = o], 4, trap, r, i - 1, outside), in(i))
      t2 == IF seg >= 2 THEN VSub(t1, in(i - rise_int)) ELSE t1
      t3 == IF seg >= 3 THEN VSub(t2, in(i - rise_int - flat_int)) ELSE t2
      t4 == IF seg >= 4 THEN VAdd(t3, in(i - 2 * rise_int - flat_int)) ELSE t3
  IN IF norm THEN VDiv(t4, rise) ELSE t4

RECURSIVE TrapLoop(_, _, _, _, _, _, _)
TrapLoop(seg, norm, o, i, M, m, outside) ==
  LET rise == ReadElem(M, 2, m[2].view, 0, 0, outside)
      flat == ReadElem(M, 3, m[3].view, 0, 0, outside)
  IN IF TrapContinues(seg, i, rise, flat, RoundToInt(rise), RoundToInt(flat), m[4].view.cols)
     THEN TrapLoop(seg, norm,
                   WriteCol(o, m[4].view, i,
                            [r \in RowsOf(m[4].view) |-> TrapStep(seg, norm, o, i, r, M, m, outside)]),
                   i + 1, M, m, outside)
     ELSE o

TrapBody(norm, M, m, outside) ==
  LET wf_in == m[1].view
      trap == m[4].view
      rise == ReadElem(M, 2, m[2].view, 0, 0, outside)
      flat == ReadElem(M, 3, m[3].view, 0, 0, outside)
      rise_int == RoundToInt(rise)
      flat_int == RoundToInt(flat)
      not_nan(r) == \A j \in 0..(wf_in.cols - 1) : isFinite(ReadElem(M, 1, wf_in, r, j, outside))
      first == WriteCol(M[4], trap, 0, [r \in RowsOf(trap) |->
                 IF not_nan(r) THEN ReadElem(M, 1, wf_in, r, 0, outside) ELSE NaN])
      after1 == TrapLoop(1, norm, first, 1, M, m, outside)
      after2 == TrapLoop(2, norm, after1, TruncToInt(rise), M, m, outside)
      after3 == TrapLoop(3, norm, after2, TruncToInt(VAdd(rise, flat)), M, m, outside)
      after4 == TrapLoop(4, norm, after3, 2 * rise_int + flat_int, M, m, outside)
  IN [M EXCEPT ![4] = after4]

trap_filter(M, m, outside) == TrapBody(FALSE, M, m, outside)
trap_norm(M, m, outside) == TrapBody(TRUE, M, m, outside)

(***************************************************************************)
(* mean (mean.cpp 15-18): a_out = w_in.rowwise().mean()                    *)
(***************************************************************************)

RECURSIVE RowSum(_, _, _, _, _)
RowSum(M, w_in, r, c, outside) ==
  IF c = 0 THEN Fin(0, 1)
  ELSE VAdd(RowSum(M, w_in, r, c - 1, outside), ReadElem(M, 1, w_in, r, c - 1, outside))

mean(M, m, outside) ==
  LET w_in == m[1].view
      a_out == m[2].view
  IN [M EXCEPT ![2] = WriteCol(M[2], a_out, 0, [r \in RowsOf(a_out) |->
        VDiv(RowSum(M, w_in, r, w_in.cols, outside), Fin(w_in.cols, 1))])]

\* the body a kernel pair runs on one invocation's arguments
KernelBody(name, M, m, outside) ==
  CASE name = "pole_zero" -> pole_zero(M, m, outside)
    [] name = "trap_filter" -> trap_filter(M, m, outside)
    [] name = "trap_norm" -> trap_norm(M, m, outside)
    [] name = "mean" -> mean(M, m, outside)

\* the memory after the invocations in cs ran one after the other
RECURSIVE RunCalls(_, _, _, _)
RunCalls(name, cs, M, outside) ==
  IF cs = <<>> THEN M
  ELSE RunCalls(name, Tail(cs), KernelBody(name, M, Head(cs).args, outside), outside)

(***************************************************************************)
(* SpecKernels: the host calls pole_zero, trap_filter, trap_norm or mean   *)
(* (double waveforms) on buffers it owns.  Every argument has a buffer of  *)
(* its own; a read that falls outside the argument's buffer yields `stray`.*)
(***************************************************************************)

\* largest inner extent dims[1] of a kernel call
MaxSamples == 4
\* number of whole batches in a batched kernel call
MaxBlocks == 2

KernelNames == {"pole_zero", "trap_filter", "trap_norm", "mean"}

KernelPacks(name) ==
  CASE name = "pole_zero" -> {PoleZeroPack}
    [] name = "mean" -> {MeanPack}
    [] name \in {"trap_filter", "trap_norm"} -> {TrapIntPack, TrapRealPack}

\* outer extents: none, a few, and MaxBlocks batches of Aligned/sizeof(double)
KernelOuter == {0, 2, MaxBlocks * (Aligned \div sizeof("double"))}

\* how the host lays an array out: sequences interleaved sample by sample
\* from an address that is a multiple of 64 ("interleaved") or is not
\* ("offset"), or one sequence after the other ("rowmajor"); a scalar is
\* passed once for all sequences ("broadcast") or once per sequence ("packed").
\* A layout names the input waveforms', the output waveforms' and the
\* read-only scalars' arrangement.
HostLayouts ==
  {<<"interleaved", "interleaved", "broadcast">>,
   <<"interleaved", "interleaved", "packed">>,
   <<"offset", "interleaved", "broadcast">>,
   <<"interleaved", "rowmajor", "broadcast">>,
   <<"rowmajor", "rowmajor", "broadcast">>}

LayoutOf(T, lin, lout, lsc) ==
  CASE T.kind = "const_wfblock_ref" -> lin
    [] T.kind = "wfblock_ref" -> lout
    [] T.kind = "scalarblock_ref" -> "packed"
    [] OTHER -> lsc

LayoutPtr(l) == IF l = "offset" THEN 72 ELSE 64

LayoutOuter(T, l, d) ==
  CASE l = "rowmajor" -> sizeof(T.dtype) * d[2]
    [] l = "broadcast" -> 0
    [] OTHER -> sizeof(T.dtype)

LayoutInner(T, l, d) ==
  IF l = "rowmajor" THEN sizeof(T.dtype)
  ELSE sizeof(T.dtype) * (IF d[1] = 0 THEN 1 ELSE d[1])

\* the m-th argument (from 1) that has an inner dimension
InnerArg(Ts, m) ==
  CHOOSE p \in 1..Len(Ts) :
    /\ has_inner_dim(Ts[p])
    /\ Cardinality({q \in 1..p : has_inner_dim(Ts[q])}) = m

LayoutArgs(Ts, lin, lout, lsc) ==
  [p \in 1..Len(Ts) |-> LayoutPtr(LayoutOf(Ts[p], lin, lout, lsc))]

LayoutSteps(Ts, d, lin, lout, lsc) ==
  [q \in 1..(Len(Ts) + NumInner(Ts)) |->
     IF q <= Len(Ts)
     THEN LayoutOuter(Ts[q], LayoutOf(Ts[q], lin, lout, lsc), d)
     ELSE LET p == InnerArg(Ts, q - Len(Ts))
          IN LayoutInner(Ts[p], LayoutOf(Ts[p], lin, lout, lsc), d)]

\* the byte address of sample j of sequence i of argument p (from 1) under
\* the host's convention
HostAddr(Ts, a, s, p, i, j) ==
  IF has_inner_dim(Ts[p])
  THEN a[p] + i * s[p]
         + j * s[Len(Ts) + Cardinality({q \in 1..p : has_inner_dim(Ts[q])})]
  ELSE a[p] + i * s[p]

\* the non-finite sample the host may have put into the input waveforms
NoSpoiler == [i |-> -1, j |-> -1, v |-> NaN]
Spoilers(d) ==
  IF d[1] = 0 THEN {NoSpoiler}
  ELSE {NoSpoiler,
        [i |-> 0, j |-> d[2] - 1, v |-> NaN],
        [i |-> d[1] - 1, j |-> d[2] \div 2, v |-> Inf(1)]}

Sample(i, j, spoiler) ==
  IF spoiler.i = i /\ spoiler.j = j THEN spoiler.v
  ELSE Fin(1 + ((i + 2 * j) % 3), 1)

\* values of the scalar parameters: tau for pole_zero; rise and flat for the
\* trapezoidal filters, whole for T_time = int and in halves for
\* T_time = double, with rise >= 1, flat >= 0 and 2*rise + flat <= dims[1]
Taus == {Fin(2, 1), NaN, Inf(1)}
Times(T, n) ==
  IF T.dtype = "double" THEN {Fin(q, 2) : q \in 0..(2 * n)}
  ELSE {Fin(q, 1) : q \in 0..n}

KernelParams(name, Ts, d) ==
  CASE name = "pole_zero" -> {<<NaN, t, NaN>> : t \in Taus}
    [] name = "mean" -> {<<NaN, NaN>>}
    [] OTHER ->
         {<<NaN, rf[1], rf[2], NaN>> : rf \in
            {x \in Times(Ts[2], d[2]) \X Times(Ts[3], d[2]) :
               /\ ~IntLess(0, VSub(Fin(1, 1), x[1]))
               /\ ~IntLess(d[2], VAdd(VMul(Fin(2, 1), x[1]), x[2]))}}

\* the buffer of argument p: the addresses of its elements, and at address x
\* the element (i, j) the layout puts there
HostBuffer(Ts, a, d, s, p, params, spoiler, fill) ==
  LET rows == IF d[1] = 0 THEN {} ELSE 0..(d[1] - 1)
      cells == IF has_inner_dim(Ts[p]) THEN rows \X (0..(d[2] - 1))
               ELSE IF is_const(Ts[p]) THEN (rows \cup {0}) \X {0}
               ELSE rows \X {0}
      addrs == {HostAddr(Ts, a, s, p, c[1], c[2]) : c \in cells}
      outer == s[p]
      inner == (HostAddr(Ts, a, s, p, 0, 1) - a[p])
      seqAt(x) == IF outer = 0 THEN 0
                  ELSE IF inner = 0 \/ outer >= inner THEN (x - a[p]) \div outer
                  ELSE ((x - a[p]) % inner) \div outer
      sampleAt(x) == IF inner = 0 THEN 0
                     ELSE IF outer >= inner THEN ((x - a[p]) % outer) \div inner
                     ELSE (x - a[p]) \div inner
  IN [x \in addrs |->
        IF ~is_const(Ts[p]) THEN fill
        ELSE IF has_inner_dim(Ts[p]) THEN Sample(seqAt(x), sampleAt(x), spoiler)
        ELSE params[p]]

InitKernels ==
  /\ stage = "called"
  /\ kernel \in KernelNames
  /\ \E pack \in KernelPacks(kernel) :
       /\ T_align = Instantiate(pack, Aligned)
       /\ T_unalign = Instantiate(pack, Unaligned)
  /\ dims \in KernelOuter \X (1..MaxSamples)
  /\ \E l \in HostLayouts :
       /\ args = LayoutArgs(T_align, l[1], l[2], l[3])
       /\ steps = LayoutSteps(T_align, dims, l[1], l[2], l[3])
  /\ stray \in IF T_align[2].kind = "scalar" /\ T_align[2].dtype = "double"
               THEN {Fin(7, 1), NaN} ELSE {Fin(7, 1)}
  /\ \E params \in KernelParams(kernel, T_align, dims),
        spoiler \in Spoilers(dims), fill \in {Fin(9, 1)} :
       mem = [p \in 1..Len(T_align) |->
                HostBuffer(T_align, args, dims, steps, p, params, spoiler, fill)]
  /\ aligned = FALSE
  /\ arg_aligned = <<>>
  /\ calls = <<>>
  /\ forced = NoForced
  /\ twin = <<>>
  /\ SignatureIdle /\ RegistryIdle

\* the call itself: execute_ufunc picks a loop and the kernel runs
RunUfunc ==
  /\ stage = "called"
  /\ aligned' = AlignedFold(T_align, args, dims, steps)
  /\ arg_aligned' = [p \in 1..Len(T_align) |->
                       is_aligned(T_align[p], args[p], dims[1], steps[p])]
  /\ calls' = execute_ufunc(T_align, T_unalign, args, dims, steps)
  /\ mem' = RunCalls(kernel, calls', mem, stray)
  /\ stage' = "returned"
  /\ UNCHANGED <<T_align, T_unalign, sig, impl_list, ufunc, args, dims, steps,
                 kernel, stray, forced, twin>>

\* both loops of execute_ufunc, each run on the buffers of the call, for a
\* call that satisfies the fold expression
RunBothLoops ==
  /\ stage = "called"
  /\ AlignedFold(T_align, args, dims, steps)
  /\ forced' =
       [al |-> RunCalls(kernel, AlignedLoop(T_align, args, dims, steps,
                                            MaxBlocksize(T_align), 0), mem, stray),
        un |-> RunCalls(kernel, UnalignedLoop(T_unalign, args, dims, steps, 0),
                        mem, stray)]
  /\ stage' = "compared"
  /\ UNCHANGED <<T_align, T_unalign, sig, impl_list, ufunc, args, dims, steps,
                 aligned, arg_aligned, calls, kernel, stray, mem, twin>>

\* the trap_norm ufunc and the trap_filter ufunc, each called with the args,
\* dims and steps of the call on the buffers of the call
RunTrapPair ==
  /\ stage = "called"
  /\ kernel = "trap_norm"
  /\ calls' = execute_ufunc(T_align, T_unalign, args, dims, steps)
  /\ mem' = RunCalls("trap_norm", calls', mem, stray)
  /\ twin' = RunCalls("trap_filter", calls', mem, stray)
  /\ stage' = "paired"
  /\ UNCHANGED <<T_align, T_unalign, sig, impl_list, ufunc, args, dims, steps,
                 aligned, arg_aligned, kernel, stray, forced>>

NextKernels == RunUfunc \/ RunBothLoops \/ RunTrapPair

SpecKernels == InitKernels /\ [][NextKernels]_vars

\* the address a view uses for coefficient (r, c); a scalar and a
\* broadcast constant have one address for every coefficient
ViewAddr(v, r, c) ==
  IF v.constant \/ v.type.kind = "scalar" THEN v.base ELSE ElemAddr(v, r, c)

\* the columns argument p has
ColsOf(p) == IF has_inner_dim(T_align[p]) THEN 0..(dims[2] - 1) ELSE {0}

BatchedCalls == AlignedLoop(T_align, args, dims, steps, BatchSize, 0)
PerSequenceCalls == UnalignedLoop(T_unalign, args, dims, steps, 0)

\* C1: for a call that satisfies the fold expression, the batched loop and
\* the per-sequence loop, each run on the buffers of the call, leave the same
\* contents in every buffer, and for every sequence i, argument p and sample
\* j the two loops address the same element, the host's element (i, j).
C1_BatchedEqualsPerSequence ==
  stage = "compared" =>
    LET batched == BatchedCalls
        single == PerSequenceCalls
    IN /\ forced.al = forced.un
       /\ \A i \in 0..(dims[1] - 1) : \A p \in 1..Len(T_align) : \A j \in ColsOf(p) :
            LET b == batched[(i \div BatchSize) + 1].args[p].view
                u == single[i + 1].args[p].view
            IN /\ ViewAddr(b, i % BatchSize, j) = ViewAddr(u, 0, j)
               /\ ViewAddr(u, 0, j) = HostAddr(T_align, args, steps, p, i, j)

\* C1 witness: two whole batches of pole_zero were run both ways, and left
\* a new finite sample in one sequence and NaN in another.
C1_Witness ==
  /\ stage = "compared"
  /\ kernel = "pole_zero"
  /\ dims[1] = 2 * BatchSize
  /\ \E x, y \in DOMAIN forced.al[3] :
       /\ isFinite(forced.al[3][x])
       /\ forced.al[3][x] # mem[3][x]
       /\ forced.al[3][y] = NaN
       /\ forced.un[3][x] = forced.al[3][x]

\* the sequences of the call, and the output argument of the kernel
Sequences == IF dims[1] = 0 THEN {} ELSE 0..(dims[1] - 1)
OutArg == Len(T_align)
InputNonFinite(i) ==
  \E j \in 0..(dims[2] - 1) : ~isFinite(mem[1][HostAddr(T_align, args, steps, 1, i, j)])
OutputNonFinite(i) ==
  \A j \in 0..(dims[2] - 1) :
    ~isFinite(mem[OutArg][HostAddr(T_align, args, steps, OutArg, i, j)])

\* C8: after pole_zero, trap_filter or trap_norm returns (rise >= 1,
\* flat >= 0, 2*rise + flat <= n, whole or not), every output sample of a
\* sequence that has a non-finite input sample is non-finite.
C8_NonFinitePropagates ==
  (stage = "returned" /\ kernel \in {"pole_zero", "trap_filter", "trap_norm"}) =>
    \A i \in Sequences : InputNonFinite(i) => OutputNonFinite(i)

\* the time parameters of a trapezoidal call, as the host passed them
RiseOf == mem[2][args[2]]
FlatOf == mem[3][args[3]]
\* sample j of sequence i of the output in a memory M
OutputAt(M, i, j) == M[OutArg][HostAddr(T_align, args, steps, OutArg, i, j)]

\* C11: for a finite input sequence and whole rise >= 1, flat >= 0 with
\* 2*rise + flat <= n, every output sample of trap_norm equals the output
\* sample of trap_filter on the same input divided by rise.
C11_NormIsFilterOverRise ==
  (stage = "paired" /\ RiseOf.d = 1 /\ FlatOf.d = 1) =>
    \A i \in Sequences : ~InputNonFinite(i) =>
      \A j \in 0..(dims[2] - 1) :
        OutputAt(mem, i, j) = VDiv(OutputAt(twin, i, j), RiseOf)

\* the number of stride slots the host supplies: N + M
SuppliedSteps == Len(T_align) + NumInner(T_align)

\* C12: every index at which get_args reads steps[] during a call is smaller
\* than N + M, also for a pack whose last argument has no inner dimension
\* (mean, (n)->()).
C12_StepReadsInBounds ==
  stage = "returned" =>
    \A i \in 1..Len(calls) : \A k \in 1..Len(calls[i].args) :
      /\ calls[i].args[k].outerSlot < SuppliedSteps
      /\ calls[i].args[k].innerSlot < SuppliedSteps

====
